---- MODULE Spec2Model ----
(***************************************************************************)
(* normie: a filename normalizer.  Model of src/src/lib.rs (arg_analyzer,  *)
(* mod_str, interactive, rename, run) and src/src/main.rs (main).          *)
(*                                                                         *)
(* A Rust String is a sequence of characters; a character is a one-letter  *)
(* TLA+ string, or "U+xxxx" for a character outside ASCII.  Text that the  *)
(* program only prints (format! literals) is kept as one element.          *)
(***************************************************************************)
EXTENDS Integers, Sequences, FiniteSets, TLC

\* ------------------------------------------------------------------ bounds

\* Largest number of command-line tokens after the program name.
MaxArgs == 3

\* Longest file name given to mod_str in SpecModStr.
MaxLen == 2

\* ------------------------------------------------------------ characters

\* Especial characters to be removed with option 'r' (lib.rs:70); U+0022 is
\* the double quote, U+005C the backslash and U+0060 the grave accent.
SPECIAL ==
    << "!", "U+0022", "#", "$", "%", "&", "'", "(", ")", "*", "+", ",", "/", ":",
       ";", "<", "=", ">", "?", "@", "[", "U+005C", "]", "^", "U+0060", "{", "|", "}",
       "~", "U+00AA", "U+00BA" >>

\* Valid characters used as parameter flags (lib.rs:73).
FLAGS == << "a", "h", "i", "l", "r", "t", "u", "v" >>

Range(s) == { s[k] : k \in 1..Len(s) }

\* Vec::contains / slice::contains.
Contains(s, c) == \E k \in 1..Len(s) : s[k] = c

UpperLetters ==
    << "A", "B", "C", "D", "E", "F", "G", "H", "I", "J", "K", "L", "M",
       "N", "O", "P", "Q", "R", "S", "T", "U", "V", "W", "X", "Y", "Z" >>

LowerLetters ==
    << "a", "b", "c", "d", "e", "f", "g", "h", "i", "j", "k", "l", "m",
       "n", "o", "p", "q", "r", "s", "t", "u", "v", "w", "x", "y", "z" >>

\* char::to_lowercase as str::to_lowercase applies it: one character may
\* become several (U+0130, capital I with dot, becomes i + U+0307).
LowerOf(c) ==
    IF Contains(UpperLetters, c)
    THEN << LowerLetters[CHOOSE k \in 1..26 : UpperLetters[k] = c] >>
    ELSE IF c = "U+0130" THEN << "i", "U+0307" >>
    ELSE << c >>

\* char::to_uppercase as str::to_uppercase applies it (U+00DF, sharp s,
\* becomes SS).
UpperOf(c) ==
    IF Contains(LowerLetters, c)
    THEN << UpperLetters[CHOOSE k \in 1..26 : LowerLetters[k] = c] >>
    ELSE IF c = "U+00DF" THEN << "S", "S" >>
    ELSE << c >>

RECURSIVE to_lowercase(_)
to_lowercase(s) ==
    IF s = << >> THEN << >> ELSE LowerOf(Head(s)) \o to_lowercase(Tail(s))

RECURSIVE to_uppercase(_)
to_uppercase(s) ==
    IF s = << >> THEN << >> ELSE UpperOf(Head(s)) \o to_uppercase(Tail(s))

\* str::replace(c, "") : every occurrence of the character is deleted.
RECURSIVE RemoveChar(_, _)
RemoveChar(s, c) ==
    IF s = << >> THEN << >>
    ELSE IF Head(s) = c THEN RemoveChar(Tail(s), c)
    ELSE << Head(s) >> \o RemoveChar(Tail(s), c)

\* text.replace(.., "_") of the common and the ideographic space
\* (lib.rs:146).
ReplaceSpaces(s) ==
    [ k \in 1..Len(s) |-> IF s[k] = " " \/ s[k] = "U+3000" THEN "_" ELSE s[k] ]

\* for c in SPECIAL.chars() { out = out.replace(c, "") } (lib.rs:154-156),
\* from the k-th special character on.
RECURSIVE RemoveSpecialFrom(_, _)
RemoveSpecialFrom(s, k) ==
    IF k > Len(SPECIAL) THEN s
    ELSE RemoveSpecialFrom(RemoveChar(s, SPECIAL[k]), k + 1)

\* ------------------------------------------------------------------ Parsed

\* Parsed::new (lib.rs:89-97).
Parsed_new == [ app |-> << >>, ins |-> << >>, me |-> << >>,
                flg |-> << >>, pos |-> << >> ]

\* Mutant of mod_str: the text is appended after removal and folding.
mod_str_append_last(text, args) ==
    LET out1 == ReplaceSpaces(text)
        out3 == IF Contains(args.flg, "i") /\ args.ins # << >>
                THEN args.ins \o out1 ELSE out1
        out4 == IF Contains(args.flg, "r")
                THEN RemoveSpecialFrom(out3, 1) ELSE out3
        out5 == IF Contains(args.flg, "l") THEN to_lowercase(out4)
                ELSE IF Contains(args.flg, "u") THEN to_uppercase(out4)
                ELSE out4
    IN  IF Contains(args.flg, "a") /\ args.app # << >>
        THEN out5 \o args.app ELSE out5

\* Mutant of mod_str: the text is appended whenever there is one, with or
\* without the flag.
mod_str_append_unflagged(text, args) ==
    LET out1 == ReplaceSpaces(text)
        out2 == IF args.app # << >> THEN out1 \o args.app ELSE out1
        out3 == IF Contains(args.flg, "i") /\ args.ins # << >>
                THEN args.ins \o out2 ELSE out2
        out4 == IF Contains(args.flg, "r")
                THEN RemoveSpecialFrom(out3, 1) ELSE out3
    IN  IF Contains(args.flg, "l") THEN to_lowercase(out4)
        ELSE IF Contains(args.flg, "u") THEN to_uppercase(out4)
        ELSE out4

\* Modify a string according to the options (lib.rs:145-164).
mod_str(text, args) ==
    LET out1 == ReplaceSpaces(text)
        out2 == IF Contains(args.flg, "a") /\ args.app # << >>
                THEN out1 \o args.app ELSE out1
        out3 == IF Contains(args.flg, "i") /\ args.ins # << >>
                THEN args.ins \o out2 ELSE out2
        out4 == IF Contains(args.flg, "r")
                THEN RemoveSpecialFrom(out3, 1) ELSE out3
    IN  IF Contains(args.flg, "l") THEN to_lowercase(out4)
        ELSE IF Contains(args.flg, "u") THEN to_uppercase(out4)
        ELSE out4

\* ------------------------------------------------------------------- paths

\* The parts of a path between its '/' separators, empty parts included.
RECURSIVE SplitAcc(_, _, _)
SplitAcc(p, k, cur) ==
    IF k > Len(p) THEN << cur >>
    ELSE IF p[k] = "/" THEN << cur >> \o SplitAcc(p, k + 1, << >>)
    ELSE SplitAcc(p, k + 1, Append(cur, p[k]))

Split(p) == SplitAcc(p, 1, << >>)

NonEmptyPart(x) == x # << >>

\* The names a system call walks for path p.
Parts(p) == SelectSeq(Split(p), NonEmptyPart)

HasRoot(p) == p # << >> /\ p[1] = "/"

NotCurDir(x) == x # << "." >>

\* Path::components: repeated separators and '.' are dropped, except a
\* leading '.' of a relative path.
Components(p) ==
    LET parts == Parts(p)
    IN  IF ~HasRoot(p) /\ parts # << >> /\ parts[1] = << "." >>
        THEN << parts[1] >> \o SelectSeq(Tail(parts), NotCurDir)
        ELSE SelectSeq(parts, NotCurDir)

\* Path::file_name: the last component when it is a normal one.
None == [ some |-> FALSE, val |-> << >> ]
Some(v) == [ some |-> TRUE, val |-> v ]

file_name(p) ==
    LET c == Components(p)
    IN  IF c = << >> THEN None
        ELSE IF c[Len(c)] = << ".", "." >> \/ c[Len(c)] = << "." >> THEN None
        ELSE Some(c[Len(c)])

\* str::strip_suffix.
strip_suffix(s, suf) ==
    IF Len(suf) <= Len(s) /\ SubSeq(s, Len(s) - Len(suf) + 1, Len(s)) = suf
    THEN Some(SubSeq(s, 1, Len(s) - Len(suf)))
    ELSE None

\* str::strip_prefix of one character.
strip_prefix(s, c) ==
    IF s # << >> /\ s[1] = c THEN Some(Tail(s)) ELSE None

\* Option::unwrap_or_default on a string.
unwrap_or_default(o) == IF o.some THEN o.val ELSE << >>

\* -------------------------------------------------------------- filesystem
\* A filesystem is a set of entries [path, dir]: path is the sequence of
\* names from the working directory (taken to be the root), dir tells a
\* directory from a file.

IsDir(fsys, path) ==
    path = << >> \/ [ path |-> path, dir |-> TRUE ] \in fsys

Present(fsys, path) ==
    path = << >> \/ \E x \in fsys : x.path = path

\* Walk the names from directory cur; every name is looked up in a directory.
RECURSIVE Walk(_, _, _, _)
Walk(fsys, names, k, cur) ==
    IF k > Len(names) THEN Some(cur)
    ELSE IF ~IsDir(fsys, cur) THEN None
    ELSE IF names[k] = << "." >> THEN Walk(fsys, names, k + 1, cur)
    ELSE IF names[k] = << ".", "." >>
         THEN Walk(fsys, names, k + 1,
                   IF cur = << >> THEN cur ELSE SubSeq(cur, 1, Len(cur) - 1))
    ELSE IF Present(fsys, Append(cur, names[k]))
         THEN Walk(fsys, names, k + 1, Append(cur, names[k]))
    ELSE None

\* stat(2): the entry a path names; a trailing '/' asks for a directory.
Lookup(fsys, p) ==
    IF p = << >> THEN None
    ELSE LET r == Walk(fsys, Parts(p), 1, << >>)
         IN  IF r.some /\ p[Len(p)] = "/" /\ ~IsDir(fsys, r.val) THEN None
             ELSE r

\* Path::exists.
exists(fsys, p) == Lookup(fsys, p).some

IsPrefix(a, b) == Len(a) <= Len(b) /\ SubSeq(b, 1, Len(a)) = a

\* The entries of fsys after the entry at src (and all below it) moved to dst.
Moved(fsys, src, dst) ==
    { x \in fsys : ~IsPrefix(src, x.path) /\ x.path # dst }
    \cup { [ path |-> dst \o SubSeq(x.path, Len(src) + 1, Len(x.path)),
             dir |-> x.dir ] : x \in { y \in fsys : IsPrefix(src, y.path) } }

\* fs::rename, that is rename(2).  oserr: the system refuses for a reason
\* outside the model (permissions, devices).
fs_rename(fsys, from, to, oserr) ==
    LET fail(why) == [ ok |-> FALSE, fs |-> fsys, why |-> why ]
        fp   == Parts(from)
        tp   == Parts(to)
        src  == Lookup(fsys, from)
        dots == { << "." >>, << ".", "." >> }
    IN  IF from = << >> \/ to = << >> THEN fail("No such file or directory")
        ELSE IF ~src.some THEN fail("No such file or directory")
        ELSE IF oserr THEN fail("Permission denied")
        ELSE IF fp = << >> \/ tp = << >> THEN fail("Device or resource busy")
        ELSE IF fp[Len(fp)] \in dots \/ tp[Len(tp)] \in dots
             THEN fail("Device or resource busy")
        ELSE LET par == Walk(fsys, SubSeq(tp, 1, Len(tp) - 1), 1, << >>)
                 dst == Append(par.val, tp[Len(tp)])
                 srcDir == IsDir(fsys, src.val)
             IN  IF ~par.some \/ ~IsDir(fsys, par.val)
                 THEN fail("No such file or directory")
                 ELSE IF to[Len(to)] = "/" /\ ~srcDir
                 THEN fail("Not a directory")
                 ELSE IF dst = src.val
                 THEN [ ok |-> TRUE, fs |-> fsys, why |-> "" ]
                 ELSE IF srcDir /\ IsPrefix(src.val, dst)
                 THEN fail("Invalid argument")
                 ELSE IF Present(fsys, dst) /\ srcDir /\ ~IsDir(fsys, dst)
                 THEN fail("Not a directory")
                 ELSE IF Present(fsys, dst) /\ ~srcDir /\ IsDir(fsys, dst)
                 THEN fail("Is a directory")
                 ELSE IF Present(fsys, dst) /\ srcDir
                         /\ \E x \in fsys : x.path # dst /\ IsPrefix(dst, x.path)
                 THEN fail("Directory not empty")
                 ELSE [ ok |-> TRUE, fs |-> Moved(fsys, src.val, dst),
                        why |-> "" ]

\* ------------------------------------------------------------ arg_analyzer

\* The body of `for arg in args` (lib.rs:108-120) for one token.
Classify(out, arg, fsys) ==
    LET stripped == strip_prefix(arg, "-")
    IN  IF stripped.some
        THEN [ out EXCEPT !.flg = out.flg \o stripped.val ]
        ELSE IF (Contains(out.flg, "a") \/ Contains(out.flg, "i"))
                /\ ~exists(fsys, arg)
        THEN IF Contains(out.flg, "a") /\ out.app = << >>
             THEN [ out EXCEPT !.app = arg ]
             ELSE IF Contains(out.flg, "i") /\ out.ins = << >>
             THEN [ out EXCEPT !.ins = arg ]
             ELSE out
        ELSE [ out EXCEPT !.pos = Append(out.pos, arg) ]

\* The loop of lib.rs:108-120 over the tokens from the k-th on.
RECURSIVE ClassifyAll(_, _, _, _)
ClassifyAll(out, args, k, fsys) ==
    IF k > Len(args) THEN out
    ELSE ClassifyAll(Classify(out, args[k], fsys), args, k + 1, fsys)

Ok(v) == [ ok |-> TRUE, val |-> v, err |-> << >> ]
Err(m) == [ ok |-> FALSE, val |-> Parsed_new, err |-> m ]

\* A flag outside FLAGS (lib.rs:137).
UnknownFlag(c) == ~Contains(FLAGS, c)

\* Mutant of Validate: the flag characters are never checked.
Validate_no_flag_check(out) ==
    IF Contains(out.flg, "h") THEN Ok(out)
    ELSE IF out.pos = << >> THEN Err(<< "missing file operand" >>)
    ELSE IF Contains(out.flg, "l") /\ Contains(out.flg, "u")
    THEN Err(<< "options 'l' and 'u' not allowed at same time" >>)
    ELSE IF Contains(out.flg, "a") /\ out.app = << >>
    THEN Err(<< "missing text to append" >>)
    ELSE IF Contains(out.flg, "i") /\ out.ins = << >>
    THEN Err(<< "missing text to insert" >>)
    ELSE Ok(out)

\* Mutant of Validate: the texts are checked before the case conflict.
Validate_case_check_late(out) ==
    IF Contains(out.flg, "h") THEN Ok(out)
    ELSE IF out.pos = << >> THEN Err(<< "missing file operand" >>)
    ELSE IF Contains(out.flg, "a") /\ out.app = << >>
    THEN Err(<< "missing text to append" >>)
    ELSE IF Contains(out.flg, "i") /\ out.ins = << >>
    THEN Err(<< "missing text to insert" >>)
    ELSE IF Contains(out.flg, "l") /\ Contains(out.flg, "u")
    THEN Err(<< "options 'l' and 'u' not allowed at same time" >>)
    ELSE LET bad == SelectSeq(out.flg, UnknownFlag)
         IN  IF bad # << >>
             THEN Err(<< "invalid option -- '", bad[1], "'" >>)
             ELSE Ok(out)

\* Mutant of Validate: the insert text is checked before the append text.
Validate_insert_check_first(out) ==
    IF Contains(out.flg, "h") THEN Ok(out)
    ELSE IF out.pos = << >> THEN Err(<< "missing file operand" >>)
    ELSE IF Contains(out.flg, "l") /\ Contains(out.flg, "u")
    THEN Err(<< "options 'l' and 'u' not allowed at same time" >>)
    ELSE IF Contains(out.flg, "i") /\ out.ins = << >>
    THEN Err(<< "missing text to insert" >>)
    ELSE IF Contains(out.flg, "a") /\ out.app = << >>
    THEN Err(<< "missing text to append" >>)
    ELSE LET bad == SelectSeq(out.flg, UnknownFlag)
         IN  IF bad # << >>
             THEN Err(<< "invalid option -- '", bad[1], "'" >>)
             ELSE Ok(out)

\* The checks of lib.rs:121-141 on the classified arguments.
Validate(out) ==
    IF Contains(out.flg, "h") THEN Ok(out)
    ELSE IF out.pos = << >> THEN Err(<< "missing file operand" >>)
    ELSE IF Contains(out.flg, "l") /\ Contains(out.flg, "u")
    THEN Err(<< "options 'l' and 'u' not allowed at same time" >>)
    ELSE IF Contains(out.flg, "a") /\ out.app = << >>
    THEN Err(<< "missing text to append" >>)
    ELSE IF Contains(out.flg, "i") /\ out.ins = << >>
    THEN Err(<< "missing text to insert" >>)
    ELSE LET bad == SelectSeq(out.flg, UnknownFlag)
         IN  IF bad # << >>
             THEN Err(<< "invalid option -- '", bad[1], "'" >>)
             ELSE Ok(out)

\* Organize and validate the arguments (lib.rs:102-142).
arg_analyzer(args, fsys) ==
    IF Len(args) <= 1 THEN Err(<< "missing file operand" >>)
    ELSE Validate(ClassifyAll([ Parsed_new EXCEPT !.me = args[1] ],
                              args, 2, fsys))

\* ------------------------------------------------------------- interactive

\* char::is_whitespace, for the characters of the model.
IsWhitespace(c) == c \in { " ", "LF", "TAB", "U+3000" }

\* Bytes of the character in UTF-8.
Utf8Len(c) ==
    IF c \in { "U+00AA", "U+00BA", "U+00DF", "U+00E9", "U+0130", "U+0307" }
    THEN 2
    ELSE IF c = "U+3000" THEN 3 ELSE 1

RECURSIVE trim_start(_)
trim_start(s) ==
    IF s # << >> /\ IsWhitespace(Head(s)) THEN trim_start(Tail(s)) ELSE s

RECURSIVE trim_end(_)
trim_end(s) ==
    IF s # << >> /\ IsWhitespace(s[Len(s)])
    THEN trim_end(SubSeq(s, 1, Len(s) - 1)) ELSE s

\* str::trim.
trim(s) == trim_end(trim_start(s))

\* s[..1]: the first byte of the string as a string; panics when the string
\* is empty or byte 1 is inside a character.
first_byte(s) ==
    IF s = << >> \/ Utf8Len(s[1]) > 1
    THEN [ panic |-> TRUE, val |-> << >> ]
    ELSE [ panic |-> FALSE, val |-> << s[1] >> ]

Bold(me) == << "ESC[1m" >> \o me \o << "ESC[0m" >>

\* Asks the user about renaming or not (lib.rs:167-176).  input: what
\* read_line gives, [ok |-> FALSE] for an I/O error.
interactive(me, old, new, input) ==
    LET prompt == Bold(me) \o << ": rename '" >> \o old \o << "' to '" >>
                  \o new \o << "'? " >>
        first  == first_byte(trim(input.line))
    IN  IF ~input.ok THEN [ res |-> "err", out |-> prompt ]
        ELSE IF first.panic THEN [ res |-> "panic", out |-> prompt ]
        ELSE IF to_lowercase(first.val) # << "y" >>
        THEN [ res |-> "err", out |-> prompt ]
        ELSE [ res |-> "ok", out |-> prompt ]

\* ------------------------------------------------------------------ rename

\* What rename hands back, with the history the properties read: res is
\* "ok", "err" (msg is the error text) or "panic"; fs the filesystem
\* afterwards; out what went to standard output; to the destination given
\* to fs::rename when it was called; what the branch taken; asked whether
\* interactive was called.
Outcome(res, what, msg, fs2, out, to, asked) ==
    [ res |-> res, what |-> what, msg |-> msg, fs |-> fs2, out |-> out,
      to |-> to, asked |-> asked ]

\* Mutant of rename_named: the user is asked before the names are compared.
rename_named_ask_first(p, name, args, fsys, input, oserr) ==
    LET target == mod_str(name, args)
        res    == unwrap_or_default(strip_suffix(p, name)) \o target
        ask    == IF Contains(args.flg, "t")
                  THEN interactive(args.me, p, res, input)
                  ELSE [ res |-> "ok", out |-> << >> ]
        mv     == fs_rename(fsys, p, res, oserr)
    IN  IF ask.res = "panic"
        THEN Outcome("panic", "Panic", << >>, fsys, ask.out, << >>,
                     Contains(args.flg, "t"))
        ELSE IF ask.res = "err"
        THEN Outcome("ok", "Declined", << >>, fsys, ask.out, << >>,
                     Contains(args.flg, "t"))
        ELSE IF name = target
        THEN Outcome("err", "NoOp",
                     Bold(args.me) \o << ": nothing to do with '" >> \o p
                         \o << "'LF" >>,
                     fsys, ask.out, << >>,
                     Contains(args.flg, "t"))
        ELSE IF mv.ok
        THEN Outcome("ok", "Renamed", << >>, mv.fs,
                     ask.out \o (IF Contains(args.flg, "v")
                                 THEN << "renamed '" >> \o p \o << "' to '" >>
                                      \o res \o << "'.LF" >>
                                 ELSE << >>),
                     res,
                     Contains(args.flg, "t"))
        ELSE Outcome("err", "RenameFailed",
                     Bold(args.me) \o << ": cannot rename '" >> \o p
                         \o << "' to '" >> \o res
                         \o << "': ", mv.why, ".LF" >>,
                     fsys, ask.out, res,
                     Contains(args.flg, "t"))

\* rename from the transformation on (lib.rs:191-217): p exists and name is
\* its file name.
rename_named(p, name, args, fsys, input, oserr) ==
    LET target == mod_str(name, args)
        res    == unwrap_or_default(strip_suffix(p, name)) \o target
        ask    == IF Contains(args.flg, "t")
                  THEN interactive(args.me, p, res, input)
                  ELSE [ res |-> "ok", out |-> << >> ]
        mv     == fs_rename(fsys, p, res, oserr)
    IN  IF name = target
        THEN Outcome("err", "NoOp",
                     Bold(args.me) \o << ": nothing to do with '" >> \o p
                         \o << "'LF" >>,
                     fsys, << >>, << >>, FALSE)
        ELSE IF ask.res = "panic"
        THEN Outcome("panic", "Panic", << >>, fsys, ask.out, << >>,
                     TRUE)
        ELSE IF ask.res = "err"
        THEN Outcome("ok", "Declined", << >>, fsys, ask.out, << >>,
                     TRUE)
        ELSE IF mv.ok
        THEN Outcome("ok", "Renamed", << >>, mv.fs,
                     ask.out \o (IF Contains(args.flg, "v")
                                 THEN << "renamed '" >> \o p \o << "' to '" >>
                                      \o res \o << "'.LF" >>
                                 ELSE << >>),
                     res,
                     Contains(args.flg, "t"))
        ELSE Outcome("err", "RenameFailed",
                     Bold(args.me) \o << ": cannot rename '" >> \o p
                         \o << "' to '" >> \o res
                         \o << "': ", mv.why, ".LF" >>,
                     fsys, ask.out, res,
                     Contains(args.flg, "t"))

\* Rename a single directory/file 'p' using options 'args' (lib.rs:179-225).
rename(p, args, fsys, input, oserr) ==
    IF ~exists(fsys, p)
    THEN Outcome("err", "NotFound",
                 Bold(args.me) \o << ": '" >> \o p
                     \o << "' is not a valid directory/file.LF" >>,
                 fsys, << >>, << >>, FALSE)
    ELSE IF ~file_name(p).some
    THEN Outcome("err", "InvalidName",
                 Bold(args.me) \o << ": " >> \o p
                     \o << " has no valid nameLF" >>,
                 fsys, << >>, << >>, FALSE)
    ELSE rename_named(p, file_name(p).val, args, fsys, input, oserr)

\* The text run returns on failure (lib.rs:237-240).
run_error(e, me) ==
    e \o Bold(me)
      \o << ": ESC[1;31merrorESC[0m, some actions could not be performed" >>

\* ------------------------------------------------------------ the program

VARIABLES
    argv,     \* env::args(): the program name and the tokens
    fs,       \* the filesystem
    pc,       \* "main", "run" (in the loop of run), "help", "parse_error",
              \* "finished" (run returned), "panicked"; in SpecModStr
              \* "mod_str", "again", "done"
    result,   \* what arg_analyzer returned
    args,     \* the Parsed given to run and to mod_str
    idx,      \* position of the loop of run in args.pos
    e,        \* run's error text so far
    stdout,   \* what was printed to standard output
    stderr,   \* what was printed to standard error
    code,     \* exit code: 0, 96, 101 after a panic, -1 while running
    log,      \* history: one record per call of rename
    text,     \* SpecModStr: the name given to mod_str
    once,     \* SpecModStr: mod_str(text, args)
    twice     \* SpecModStr: mod_str(once, args)

vars == << argv, fs, pc, result, args, idx, e, stdout, stderr, code, log,
           text, once, twice >>

Me == << "normie" >>

\* The filesystem the program starts in: a directory d holding a
\* directory e, and the files "a b" and c.
InitFS ==
    { [ path |-> << << "d" >> >>, dir |-> TRUE ],
      [ path |-> << << "d" >>, << "e" >> >>, dir |-> TRUE ],
      [ path |-> << << "a", " ", "b" >> >>, dir |-> FALSE ],
      [ path |-> << << "c" >> >>, dir |-> FALSE ] }

\* The command-line tokens of the model.
Tokens ==
    { << "-", "a" >>, << "-", "i" >>, << "-", "h" >>, << "-", "u" >>,
      << "-", "l", "u" >>, << "-", "r" >>, << "-", "t" >>, << "-", "v", "z" >>,
      << "a", " ", "b" >>, << "c" >>, << "d", "/", "e", "/" >>,
      << ".", "." >>, << "x", "!" >>, << "y" >> }

\* The token sequences of at most n tokens.
RECURSIVE TokenSeqs(_)
TokenSeqs(n) ==
    IF n = 0 THEN { << >> }
    ELSE LET shorter == TokenSeqs(n - 1)
         IN  shorter \cup { Append(s, t) : s \in shorter, t \in Tokens }

\* Standard input is not read.
NoInput == [ ok |-> FALSE, line |-> << >> ]

\* What read_line may give at the prompt.
Inputs ==
    { [ ok |-> TRUE, line |-> << "y", "LF" >> ],
      [ ok |-> TRUE, line |-> << "Y", "e", "s", "LF" >> ],
      [ ok |-> TRUE, line |-> << "n", "LF" >> ],
      [ ok |-> TRUE, line |-> << " ", "y", "LF" >> ],
      [ ok |-> TRUE, line |-> << "LF" >> ],
      [ ok |-> TRUE, line |-> << " ", "LF" >> ],
      [ ok |-> TRUE, line |-> << "U+00E9", "LF" >> ],
      [ ok |-> TRUE, line |-> << >> ],
      [ ok |-> FALSE, line |-> << >> ] }

NotStarted == [ ok |-> FALSE, val |-> Parsed_new, err |-> << >> ]

Init ==
    /\ argv \in { << Me >> \o s : s \in TokenSeqs(MaxArgs) }
    /\ fs = InitFS
    /\ pc = "main"
    /\ result = NotStarted
    /\ args = Parsed_new
    /\ idx = 1
    /\ e = << >>
    /\ stdout = << >>
    /\ stderr = << >>
    /\ code = -1
    /\ log = << >>
    /\ text = << >>
    /\ once = << >>
    /\ twice = << >>

\* main (main.rs:8-29) up to the call of run: parse, report a parse error
\* and exit 96, or print the help.
Main ==
    /\ pc = "main"
    /\ result' = arg_analyzer(argv, fs)
    /\ IF ~result'.ok
       THEN /\ stderr' = Bold(argv[1]) \o << ": ESC[1;31merrorESC[0m, " >>
                         \o result'.err \o << ".LFTry '" >> \o argv[1]
                         \o << " -h' for more information.LF" >>
            /\ pc' = "parse_error"
            /\ code' = 96
            /\ UNCHANGED << args, stdout >>
       ELSE IF Contains(result'.val.flg, "h")
       THEN /\ stdout' = << "normie 0.1.0LFLFUSAGE:LFTAB" >> \o argv[1]
                         \o << " ", "USAGE", ".LF" >>
            /\ args' = result'.val
            /\ pc' = "help"
            /\ code' = 0
            /\ UNCHANGED stderr
       ELSE /\ args' = result'.val
            /\ pc' = "run"
            /\ UNCHANGED << stdout, stderr, code >>
    /\ UNCHANGED << argv, fs, idx, e, log, text, once, twice >>

\* One turn of the loop of run (lib.rs:231-235): rename the next target and
\* keep its error.  A panic in interactive ends the process with code 101.
RunStep ==
    /\ pc = "run"
    /\ idx <= Len(args.pos)
    /\ \E input \in (IF Contains(args.flg, "t") THEN Inputs ELSE { NoInput }),
          oserr \in BOOLEAN :
         \E r \in { rename(args.pos[idx], args, fs, input, oserr) } :
             /\ log' = Append(log, [ p |-> args.pos[idx], what |-> r.what,
                                     msg |-> r.msg, to |-> r.to,
                                     prompt |-> r.asked,
                                     input |-> IF r.asked THEN input
                                               ELSE NoInput ])
             /\ stdout' = stdout \o r.out
             /\ fs' = r.fs
             /\ IF r.res = "panic"
                THEN /\ pc' = "panicked"
                     /\ code' = 101
                     /\ UNCHANGED << idx, e >>
                ELSE /\ idx' = idx + 1
                     /\ e' = IF r.res = "err" THEN e \o r.msg ELSE e
                     /\ UNCHANGED << pc, code >>
    /\ UNCHANGED << argv, result, args, stderr, text, once, twice >>

\* The end of run (lib.rs:236-242) and of main (main.rs:24-27).
RunEnd ==
    /\ pc = "run"
    /\ idx > Len(args.pos)
    /\ IF e # << >>
       THEN /\ stderr' = run_error(e, args.me) \o << ".LF" >>
            /\ code' = 96
       ELSE /\ code' = 0
            /\ UNCHANGED stderr
    /\ pc' = "finished"
    /\ UNCHANGED << argv, fs, result, args, idx, e, stdout, log, text, once,
                    twice >>

Next == Main \/ RunStep \/ RunEnd

Spec == Init /\ [][Next]_vars

\* ------------------------------------------------- mod_str on its own

\* The characters of the names given to mod_str.
NameChars == { "a", "B", " ", "U+3000", "!", "-", "U+00DF", "U+0130" }

\* The strings over NameChars of at most n characters.
RECURSIVE Names(_)
Names(n) ==
    IF n = 0 THEN { << >> }
    ELSE LET shorter == Names(n - 1)
         IN  shorter \cup { Append(s, c) : s \in shorter, c \in NameChars }

\* The flags mod_str reads, as a Vec in the order of FLAGS.
FlagVec(set) == SelectSeq(FLAGS, LAMBDA c : c \in set)

\* The configurations given to mod_str: every Parsed a caller of run can
\* build (the fields are public), validated by arg_analyzer or not.
Configs ==
    { [ Parsed_new EXCEPT !.me = Me, !.flg = FlagVec(f), !.app = a, !.ins = i ] :
        f \in SUBSET { "a", "i", "l", "r", "u" },
        a \in { << >>, << "!", "Z", " " >> },
        i \in { << >>, << "q", "#" >> } }

InitModStr ==
    /\ text \in Names(MaxLen)
    /\ args \in Configs
    /\ pc = "mod_str"
    /\ once = << >>
    /\ twice = << >>
    /\ argv = << Me >>
    /\ fs = { }
    /\ result = NotStarted
    /\ idx = 1
    /\ e = << >>
    /\ stdout = << >>
    /\ stderr = << >>
    /\ code = -1
    /\ log = << >>

\* mod_str applied to the name.
ModStr ==
    /\ pc = "mod_str"
    /\ once' = mod_str(text, args)
    /\ pc' = "again"
    /\ UNCHANGED << argv, fs, result, args, idx, e, stdout, stderr, code, log,
                    text, twice >>

\* mod_str applied to its own result.
ModStrAgain ==
    /\ pc = "again"
    /\ twice' = mod_str(once, args)
    /\ pc' = "done"
    /\ UNCHANGED << argv, fs, result, args, idx, e, stdout, stderr, code, log,
                    text, once >>

NextModStr == ModStr \/ ModStrAgain

SpecModStr == InitModStr /\ [][NextModStr]_vars

\* ===================================================================
\* Properties
\* ===================================================================

\* A flag bundle: a token that starts with '-'.
IsBundle(t) == t # << >> /\ t[1] = "-"

\* The characters of the flag bundles of a command line.
BundleChars(av) ==
    UNION { Range(Tail(av[k])) : k \in { j \in 2..Len(av) : IsBundle(av[j]) } }

\* The parser has returned and the filesystem is still the one it saw.
AfterParse == pc \in { "parse_error", "help" } \/ (pc = "run" /\ idx = 1)

\* The classification of the command line (lib.rs:106-120).
Classified ==
    ClassifyAll([ Parsed_new EXCEPT !.me = argv[1] ], argv, 2, fs)

MissingOperand == << "missing file operand" >>
ConflictingCase == << "options 'l' and 'u' not allowed at same time" >>
MissingAppendText == << "missing text to append" >>
MissingInsertText == << "missing text to insert" >>

\* The first character of flg outside the recognized set.
FirstUnknown(flg) ==
    flg[CHOOSE k \in 1..Len(flg) :
            /\ flg[k] \notin Range(FLAGS)
            /\ \A j \in 1..(k - 1) : flg[j] \in Range(FLAGS)]

UnknownFlagError(flg) == << "invalid option -- '", FirstUnknown(flg), "'" >>

ErrorKinds == { "NotFound", "InvalidName", "NoOp", "RenameFailed" }

\* The error texts of the first n calls of rename, one after the other.
RECURSIVE Messages(_)
Messages(n) ==
    IF n = 0 THEN << >>
    ELSE Messages(n - 1)
         \o (IF log[n].what \in ErrorKinds THEN log[n].msg ELSE << >>)

\* The targets of the calls of rename so far.
Attempted == [ k \in 1..Len(log) |-> log[k].p ]

\* ------------------------------------------------------------------ C1
\* C1: run never aborts a batch early: every target is attempted exactly
\* once, in command-line order, whatever happened to the earlier ones; run
\* returns, with failure exactly when a per-target error was recorded, and
\* the failure text is the per-target messages in target order followed by
\* the summary line.
CE_C1_BatchNeverAborts ==
    /\ pc = "run" => Attempted = SubSeq(args.pos, 1, idx - 1)
    /\ pc \in { "finished", "panicked" } =>
         /\ Attempted = args.pos
         /\ code \in { 0, 96 }
         /\ code = 96 <=> \E k \in 1..Len(log) : log[k].what \in ErrorKinds
         /\ code = 96 =>
              stderr = Messages(Len(log)) \o Bold(args.me)
                       \o << ": ESC[1;31merrorESC[0m, some actions could not be performed",
                             ".LF" >>

\* ------------------------------------------------------------------ C2
FirstIsY(line) == line # << >> /\ line[1] \in { "y", "Y" }

\* C2: with Interactive set, for every line read at the prompt, a first
\* character other than 'y' or 'Y' means the target is not renamed, no error
\* is recorded and processing moves on; the rename is performed only when
\* the first character is 'y' or 'Y'.
CE_C2_DeclineIsSilent ==
    \A k \in 1..Len(log) :
        (log[k].prompt /\ log[k].input.ok) =>
            IF FirstIsY(log[k].input.line)
            THEN log[k].what \in { "Renamed", "RenameFailed" }
            ELSE log[k].what = "Declined"

\* ------------------------------------------------------------------ C3
\* C3 as claimed: every configuration returned has only recognized flags,
\* and an unrecognized character in a bundle always gives UnknownFlag.
CE_C3_OnlyRecognizedFlags ==
    AfterParse =>
        /\ result.ok => Range(result.val.flg) \subseteq Range(FLAGS)
        /\ ~(BundleChars(argv) \subseteq Range(FLAGS)) =>
               ~result.ok /\ result.err[1] = "invalid option -- '"

\* The checks that come before the one of the flag characters all pass.
EarlierChecksPass(out) ==
    /\ out.pos # << >>
    /\ ~({ "l", "u" } \subseteq Range(out.flg))
    /\ ~("a" \in Range(out.flg) /\ out.app = << >>)
    /\ ~("i" \in Range(out.flg) /\ out.ins = << >>)

\* C3 amended: every configuration returned without the Help flag has only
\* recognized flags; an unrecognized character in a bundle, with no 'h' in
\* any bundle, gives an error and never a configuration, and the error is
\* UnknownFlag of the first such character when no earlier check fails.
T_C3_OnlyRecognizedFlagsUnlessHelp ==
    AfterParse =>
        /\ (result.ok /\ "h" \notin Range(result.val.flg)) =>
               Range(result.val.flg) \subseteq Range(FLAGS)
        /\ (~(BundleChars(argv) \subseteq Range(FLAGS))
            /\ "h" \notin BundleChars(argv)) =>
               /\ ~result.ok
               /\ EarlierChecksPass(Classified) =>
                      result.err = UnknownFlagError(Classified.flg)

W_C3_UnknownFlagRejected ==
    /\ pc = "parse_error"
    /\ result.err = << "invalid option -- '", "z", "'" >>
    /\ Classified.pos # << >>

\* ------------------------------------------------------------------ C4
\* C4 as claimed: 'l' and 'u' together are always rejected with
\* ConflictingCase.
CE_C4_CaseConflictAlways ==
    (AfterParse /\ { "l", "u" } \subseteq BundleChars(argv)) =>
        ~result.ok /\ result.err = ConflictingCase

\* C4 amended: 'l' and 'u' together, with no 'h' in any bundle and at least
\* one positional target, are rejected with ConflictingCase whatever the
\* other flags; no configuration returned without Help has both.
T_C4_CaseConflictUnlessHelp ==
    AfterParse =>
        /\ ({ "l", "u" } \subseteq BundleChars(argv)
            /\ "h" \notin BundleChars(argv)
            /\ Classified.pos # << >>) =>
               ~result.ok /\ result.err = ConflictingCase
        /\ (result.ok /\ "h" \notin Range(result.val.flg)) =>
               ~({ "l", "u" } \subseteq Range(result.val.flg))

W_C4_CaseConflictWithOtherFlags ==
    /\ pc = "parse_error"
    /\ result.err = ConflictingCase
    /\ "t" \in BundleChars(argv)

\* ------------------------------------------------------------------ C6
\* The validation sequence as the claim lists it: each step with what it
\* returns when it applies.
Steps(out) ==
    << [ hit |-> Len(argv) <= 1, res |-> Err(MissingOperand) ],
       [ hit |-> "h" \in Range(out.flg), res |-> Ok(out) ],
       [ hit |-> out.pos = << >>, res |-> Err(MissingOperand) ],
       [ hit |-> { "l", "u" } \subseteq Range(out.flg),
         res |-> Err(ConflictingCase) ],
       [ hit |-> "a" \in Range(out.flg) /\ out.app = << >>,
         res |-> Err(MissingAppendText) ],
       [ hit |-> "i" \in Range(out.flg) /\ out.ins = << >>,
         res |-> Err(MissingInsertText) ],
       [ hit |-> ~(Range(out.flg) \subseteq Range(FLAGS)),
         res |-> IF Range(out.flg) \subseteq Range(FLAGS) THEN Ok(out)
                 ELSE Err(UnknownFlagError(out.flg)) ],
       [ hit |-> TRUE, res |-> Ok(out) ] >>

FirstHit(steps) ==
    steps[CHOOSE k \in 1..Len(steps) :
              steps[k].hit /\ \A j \in 1..(k - 1) : ~steps[j].hit].res

\* C6: the parser reports the first failing check of the fixed sequence and
\* nothing else; Help returns the configuration with the later checks
\* skipped.
T_C6_FirstFailingCheck ==
    AfterParse => result = FirstHit(Steps(Classified))

W_C6_SeveralChecksFail ==
    /\ pc = "parse_error"
    /\ result.err = ConflictingCase
    /\ "a" \in BundleChars(argv)
    /\ Classified.app = << >>

\* ------------------------------------------------------------------ C9
\* The classification of one token as the claim states it.
ClaimedClassify(out, arg, fsys) ==
    IF IsBundle(arg) THEN [ out EXCEPT !.flg = out.flg \o Tail(arg) ]
    ELSE IF ~exists(fsys, arg) /\ "a" \in Range(out.flg) /\ out.app = << >>
    THEN [ out EXCEPT !.app = arg ]
    ELSE IF ~exists(fsys, arg) /\ "i" \in Range(out.flg) /\ out.ins = << >>
    THEN [ out EXCEPT !.ins = arg ]
    ELSE [ out EXCEPT !.pos = Append(out.pos, arg) ]

RECURSIVE ClaimedClassifyAll(_, _, _, _)
ClaimedClassifyAll(out, av, k, fsys) ==
    IF k > Len(av) THEN out
    ELSE ClaimedClassifyAll(ClaimedClassify(out, av[k], fsys), av, k + 1, fsys)

\* C9: no non-flag token is lost: a token that is no bundle and no existing
\* path becomes the append value, else the prepend value, and otherwise (the
\* slots being filled) a positional target; every non-flag token is exactly
\* one of append, prepend or a target.
CE_C9_NoTokenLost ==
    AfterParse =>
        /\ Classified =
               ClaimedClassifyAll([ Parsed_new EXCEPT !.me = argv[1] ],
                                  argv, 2, fs)
        /\ Cardinality({ k \in 2..Len(argv) : ~IsBundle(argv[k]) }) =
               Len(Classified.pos)
               + (IF Classified.app # << >> THEN 1 ELSE 0)
               + (IF Classified.ins # << >> THEN 1 ELSE 0)

\* ------------------------------------------------------------------ C8
\* The next target exists and its transformed name is its current name.
NoOpTarget ==
    /\ pc = "run"
    /\ idx <= Len(args.pos)
    /\ exists(fs, args.pos[idx])
    /\ file_name(args.pos[idx]).some
    /\ mod_str(file_name(args.pos[idx]).val, args)
           = file_name(args.pos[idx]).val

\* C8: a target whose transformed name equals its current name gets the
\* "nothing to do with" error, no rename (the filesystem is unchanged) and
\* no prompt.
T_C8_NoOpReportedUntouched ==
    [][NoOpTarget =>
          /\ fs' = fs
          /\ stdout' = stdout
          /\ e' = e \o Bold(args.me) \o << ": nothing to do with '" >>
                    \o args.pos[idx] \o << "'LF" >>
          /\ idx' = idx + 1
          /\ pc' = "run"]_vars

W_C8_NoOpUnderInteractive ==
    /\ "t" \in Range(args.flg)
    /\ \E k \in 1..Len(log) : log[k].what = "NoOp"

\* ------------------------------------------------------------------ C10
\* p without the '/' and '/.' that may follow its file name.
RECURSIVE StripTrailing(_)
StripTrailing(p) ==
    IF p # << >> /\ p[Len(p)] = "/"
    THEN StripTrailing(SubSeq(p, 1, Len(p) - 1))
    ELSE IF Len(p) >= 2 /\ p[Len(p)] = "." /\ p[Len(p) - 1] = "/"
    THEN StripTrailing(SubSeq(p, 1, Len(p) - 1))
    ELSE p

\* The directory prefix of p: all that comes before its file name.
DirPrefix(p) ==
    SubSeq(p, 1, Len(StripTrailing(p)) - Len(file_name(p).val))

\* C10: the destination given to the filesystem rename is the directory
\* prefix of the target followed by the transformed file name, also for a
\* target written with a trailing '/' or '/.'.
CE_C10_DestinationKeepsDirectory ==
    \A k \in 1..Len(log) :
        log[k].what \in { "Renamed", "RenameFailed" } =>
            log[k].to = DirPrefix(log[k].p)
                        \o mod_str(file_name(log[k].p).val, args)

\* ------------------------------------------------------------------ C5
IsSpecial(c) == c \in Range(SPECIAL)

NotSpecial(c) == ~IsSpecial(c)

\* The steps of the claim's formula for configuration c.
AppendOf(c) == IF "a" \in Range(c.flg) THEN c.app ELSE << >>

PrependOf(c) == IF "i" \in Range(c.flg) THEN c.ins ELSE << >>

RemoveOf(c, x) == IF "r" \in Range(c.flg) THEN SelectSeq(x, NotSpecial) ELSE x

FoldOf(c, x) ==
    IF "l" \in Range(c.flg) THEN to_lowercase(x)
    ELSE IF "u" \in Range(c.flg) THEN to_uppercase(x)
    ELSE x

T_C7_Idempotent ==
    (pc = "done" /\ Range(args.flg) \subseteq { "l", "u", "r" }) =>
        twice = once

W_C7_IdempotentCase ==
    /\ pc = "done"
    /\ Range(args.flg) = { "r", "u" }
    /\ text = << " ", "U+00DF" >>
    /\ once = << "_", "S", "S" >>
    /\ twice = once

====
